---- MODULE Spec2Model ----
(***************************************************************************)
(* Model of clippy/src/app.py: the CLIP embedding service.                 *)
(*                                                                         *)
(*  - the sliding-window planner (calculate_sliding_window_chunks and      *)
(*    chunk_text_tokens_sliding_window), as operators computed the way the *)
(*    Python loops compute them;                                           *)
(*  - the aggregation arithmetic (L2 normalisation, torch mean, the        *)
(*    (image + text) / 2 combination) over exact rational 2-vectors;       *)
(*  - the three request handlers embed_text, embed_image, embed_combined,  *)
(*    as step-by-step actions that read the request where the code reads   *)
(*    it.                                                                  *)
(*                                                                         *)
(* Two specifications: SpecPlan applies the planner to bounded inputs      *)
(* (any chunk_size / step_size), Spec runs one request through a handler   *)
(* with the deployed defaults.                                             *)
(***************************************************************************)
EXTENDS Integers, Sequences, FiniteSets, TLC

VARIABLES
    \* ---- process-wide state (module level of app.py)
    model, processor, tokenizer,   \* "loaded" or "None" (lines 26-37)
    MAX_FILES,                     \* int(os.getenv("MAX_FILES", 1)) (line 18)
    \* ---- one request through a handler
    endpoint,                      \* "none", "text", "image", "combined"
    pc,                            \* position in the handler
    is_json,                       \* request.is_json
    has_text, has_image, has_image_url,   \* locals of embed_combined (lines 263-271)
    nfiles,                        \* len(request.files)
    images,                        \* the handler's images list (image ids)
    text,                          \* the request's text
    response,                      \* what the handler returned
    tokenizer_uses, model_uses,    \* calls made while handling (observers)
    \* ---- planner runs (SpecPlan)
    p_text, p_chunk_size, p_step_size,    \* the inputs
    p_called,                             \* which of the two functions have returned
    p_num, p_chunks, p_exit               \* their results

svars == <<model, processor, tokenizer, MAX_FILES, endpoint, pc, is_json,
           has_text, has_image, has_image_url, nfiles, images, text, response,
           tokenizer_uses, model_uses>>
pvars == <<p_text, p_chunk_size, p_step_size, p_called, p_num, p_chunks, p_exit>>
vars == <<svars, pvars>>

----------------------------------------------------------------------------
(* Program constants *)

MAX_TEXT_LENGTH == 2000
CHUNK_SIZE == 64
SLIDING_WINDOW_STEP == 32
MAX_FILE_SIZE_MB == 5

(* Bounds of the model *)

MaxTokenCount == 200      \* token counts of request texts and of deployed planner runs
MaxChunkSize == 8         \* chunk_size of the general planner runs: 1..MaxChunkSize
MaxPlanTokens == 26       \* token counts of the general planner runs
MaxImages == 3            \* images one request carries
MaxFilesCfg == 2          \* MAX_FILES as the environment may set it: 1..MaxFilesCfg

----------------------------------------------------------------------------
(* Python arithmetic and slicing *)

Min(a, b) == IF a <= b THEN a ELSE b
Max(a, b) == IF a >= b THEN a ELSE b
Abs(a) == IF a < 0 THEN -a ELSE a

\* tokens[i:j] for 0 <= i: 0-based, end exclusive, clipped to the length
Slice(s, i, j) == SubSeq(s, i + 1, Min(j, Len(s)))

----------------------------------------------------------------------------
(* Texts and the tokenizer.                                                *)
(* A text is a run of tokens plus whitespace: [start, end, pad] is the     *)
(* text whose tokens are the ids start+1 .. end, written one character     *)
(* each, followed by pad blanks.  The tokenizer drops the blanks; decode   *)
(* writes the tokens back without them.                                    *)

Text(s, e, p) == [start |-> s, end |-> e, pad |-> p]

\* len(text)
CharLen(t) == (t.end - t.start) + t.pad

\* tokenizer.encode(text, add_special_tokens=False)
TokenizerEncode(t) == [k \in 1..(t.end - t.start) |-> t.start + k]

\* tokenizer.decode(chunk_tokens, skip_special_tokens=True)
TokenizerDecode(toks) ==
    IF Len(toks) = 0 THEN Text(0, 0, 0)
    ELSE Text(toks[1] - 1, toks[Len(toks)], 0)

\* _encode_text_cached(text): cached or not, the value is tokenizer.encode's
\* (the lru_cache changes no value, and is not part of the state)
EncodeTextCached(t) == TokenizerEncode(t)

----------------------------------------------------------------------------
(* The sliding-window planner *)

\* CalcLoop with the stop test written > instead of >=
RECURSIVE CalcLoop_StrictStop(_, _, _, _, _)
CalcLoop_StrictStop(i, num_chunks, token_count, chunk_size, step_size) ==
    IF i >= token_count
    THEN [num_chunks |-> num_chunks, exit |-> "range"]
    ELSE LET chunk_tokens == Min(chunk_size, token_count - i) IN
         IF chunk_tokens < chunk_size \div 2
         THEN [num_chunks |-> num_chunks, exit |-> "short"]
         ELSE IF i + chunk_size > token_count
         THEN [num_chunks |-> num_chunks + 1, exit |-> "end"]
         ELSE CalcLoop_StrictStop(i + step_size, num_chunks + 1, token_count,
                                  chunk_size, step_size)

\* the for loop of calculate_sliding_window_chunks, from index i on
RECURSIVE CalcLoop(_, _, _, _, _)
CalcLoop(i, num_chunks, token_count, chunk_size, step_size) ==
    IF i >= token_count
    THEN [num_chunks |-> num_chunks, exit |-> "range"]
    ELSE LET chunk_tokens == Min(chunk_size, token_count - i) IN
         IF chunk_tokens < chunk_size \div 2
         THEN [num_chunks |-> num_chunks, exit |-> "short"]
         ELSE IF i + chunk_size >= token_count
         THEN [num_chunks |-> num_chunks + 1, exit |-> "end"]
         ELSE CalcLoop(i + step_size, num_chunks + 1, token_count, chunk_size, step_size)

calculate_sliding_window_chunks(token_count, chunk_size, step_size) ==
    IF token_count <= chunk_size
    THEN 1
    ELSE Max(1, CalcLoop(0, 0, token_count, chunk_size, step_size).num_chunks)

\* SlidingLoop dropping every window shorter than chunk_size
RECURSIVE SlidingLoop_DropTruncated(_, _, _, _, _)
SlidingLoop_DropTruncated(i, chunks, tokens, chunk_size, step_size) ==
    IF i >= Len(tokens)
    THEN [chunks |-> chunks, exit |-> "range"]
    ELSE LET chunk_tokens == Slice(tokens, i, i + chunk_size) IN
         IF Len(chunk_tokens) < chunk_size
         THEN [chunks |-> chunks, exit |-> "short"]
         ELSE LET chunk_text == TokenizerDecode(chunk_tokens) IN
              IF i + chunk_size >= Len(tokens)
              THEN [chunks |-> Append(chunks, chunk_text), exit |-> "end"]
              ELSE SlidingLoop_DropTruncated(i + step_size, Append(chunks, chunk_text),
                                             tokens, chunk_size, step_size)

\* SlidingLoop without the minimum-fragment test
RECURSIVE SlidingLoop_NoMinFragment(_, _, _, _, _)
SlidingLoop_NoMinFragment(i, chunks, tokens, chunk_size, step_size) ==
    IF i >= Len(tokens)
    THEN [chunks |-> chunks, exit |-> "range"]
    ELSE LET chunk_tokens == Slice(tokens, i, i + chunk_size)
             chunk_text == TokenizerDecode(chunk_tokens) IN
         IF i + chunk_size >= Len(tokens)
         THEN [chunks |-> Append(chunks, chunk_text), exit |-> "end"]
         ELSE SlidingLoop_NoMinFragment(i + step_size, Append(chunks, chunk_text),
                                        tokens, chunk_size, step_size)

\* SlidingLoop stopping one window early: the stop test looks one step ahead
RECURSIVE SlidingLoop_EarlyStop(_, _, _, _, _)
SlidingLoop_EarlyStop(i, chunks, tokens, chunk_size, step_size) ==
    IF i >= Len(tokens)
    THEN [chunks |-> chunks, exit |-> "range"]
    ELSE LET chunk_tokens == Slice(tokens, i, i + chunk_size) IN
         IF Len(chunk_tokens) < chunk_size \div 2
         THEN [chunks |-> chunks, exit |-> "short"]
         ELSE LET chunk_text == TokenizerDecode(chunk_tokens) IN
              IF i + step_size + chunk_size >= Len(tokens)
              THEN [chunks |-> Append(chunks, chunk_text), exit |-> "end"]
              ELSE SlidingLoop_EarlyStop(i + step_size, Append(chunks, chunk_text),
                                         tokens, chunk_size, step_size)

\* the for loop of chunk_text_tokens_sliding_window, from index i on
RECURSIVE SlidingLoop(_, _, _, _, _)
SlidingLoop(i, chunks, tokens, chunk_size, step_size) ==
    IF i >= Len(tokens)
    THEN [chunks |-> chunks, exit |-> "range"]
    ELSE LET chunk_tokens == Slice(tokens, i, i + chunk_size) IN
         IF Len(chunk_tokens) < chunk_size \div 2
         THEN [chunks |-> chunks, exit |-> "short"]
         ELSE LET chunk_text == TokenizerDecode(chunk_tokens) IN
              IF i + chunk_size >= Len(tokens)
              THEN [chunks |-> Append(chunks, chunk_text), exit |-> "end"]
              ELSE SlidingLoop(i + step_size, Append(chunks, chunk_text),
                               tokens, chunk_size, step_size)

\* SlidingRun returning the decoded tokens, not the text, for a short text
SlidingRun_Decoded(t, chunk_size, step_size) ==
    LET tokens == EncodeTextCached(t) IN
    IF Len(tokens) <= chunk_size
    THEN [chunks |-> <<TokenizerDecode(tokens)>>, exit |-> "single"]
    ELSE SlidingLoop(0, <<>>, tokens, chunk_size, step_size)

\* the loop with its exit, or "single" when the text is returned whole
SlidingRun(t, chunk_size, step_size) ==
    LET tokens == EncodeTextCached(t) IN
    IF Len(tokens) <= chunk_size
    THEN [chunks |-> <<t>>, exit |-> "single"]
    ELSE SlidingLoop(0, <<>>, tokens, chunk_size, step_size)

\* past the tokenizer check of lines 73-74
chunk_text_tokens_sliding_window(t, chunk_size, step_size) ==
    SlidingRun(t, chunk_size, step_size).chunks

----------------------------------------------------------------------------
(* Tensors.  A feature tensor of shape (1, 2) is the exact rational point  *)
(* (x/d, y/d), kept in lowest terms.                                       *)

Vec(x, y, d) == [x |-> x, y |-> y, d |-> d]

RECURSIVE GCD(_, _)
GCD(a, b) == IF b = 0 THEN a ELSE GCD(b, a % b)

LCM(a, b) == (a \div GCD(a, b)) * b

Reduce(v) ==
    LET g == GCD(GCD(Abs(v.x), Abs(v.y)), v.d)
    IN  Vec(v.x \div g, v.y \div g, v.d \div g)

\* the integer square root; exact on the squares the model's vectors have
ISqrt(n) == CHOOSE r \in 0..n : r * r <= n /\ (r + 1) * (r + 1) > n

\* features / features.norm(dim=-1, keepdim=True)
L2Normalize(v) == Reduce(Vec(v.x, v.y, ISqrt(v.x * v.x + v.y * v.y)))

RECURSIVE LcmDen(_, _)
LcmDen(vs, k) == IF k = 0 THEN 1 ELSE LCM(vs[k].d, LcmDen(vs, k - 1))

RECURSIVE SumX(_, _, _)
SumX(vs, k, D) == IF k = 0 THEN 0 ELSE vs[k].x * (D \div vs[k].d) + SumX(vs, k - 1, D)

RECURSIVE SumY(_, _, _)
SumY(vs, k, D) == IF k = 0 THEN 0 ELSE vs[k].y * (D \div vs[k].d) + SumY(vs, k - 1, D)

\* torch.stack(vs).mean(dim=0)
StackMean(vs) ==
    LET D == LcmDen(vs, Len(vs))
    IN  Reduce(Vec(SumX(vs, Len(vs), D), SumY(vs, Len(vs), D), D * Len(vs)))

\* (image_features + text_features) / 2
CombineFeatures(image_features, text_features) ==
    LET D == LCM(image_features.d, text_features.d)
    IN  Reduce(Vec(image_features.x * (D \div image_features.d)
                     + text_features.x * (D \div text_features.d),
                   image_features.y * (D \div image_features.d)
                     + text_features.y * (D \div text_features.d),
                   2 * D))

\* features.cpu().numpy().flatten().tolist(): the list of the coordinates
ToList(v) == << <<v.x, v.d>>, <<v.y, v.d>> >>

----------------------------------------------------------------------------
(* The CLIP model: an opaque deterministic function of its input.  Its raw *)
(* outputs are integer vectors of integer length, not normalised.          *)

TextRaw == << Vec(6, 8, 1), Vec(5, 12, 1), Vec(8, 6, 1), Vec(12, 5, 1), Vec(0, 3, 1) >>
ImageRaw == << Vec(4, 3, 1), Vec(-3, 4, 1), Vec(12, -5, 1), Vec(9, 12, 1) >>

\* model.get_text_features(**processor(text=[t], ...))
get_text_features(t) == TextRaw[((t.start + t.end + t.pad) % Len(TextRaw)) + 1]

\* model.get_image_features(**processor(images=img, ...))
get_image_features(img) == ImageRaw[((img - 1) % Len(ImageRaw)) + 1]

----------------------------------------------------------------------------
(* process_text_chunks and the image averaging *)

process_text_chunks(t) ==
    LET chunks == chunk_text_tokens_sliding_window(t, CHUNK_SIZE, SLIDING_WINDOW_STEP) IN
    IF Len(chunks) = 1
    THEN L2Normalize(get_text_features(t))
    ELSE StackMean([k \in 1..Len(chunks) |-> L2Normalize(get_text_features(chunks[k]))])

\* the single / averaged image branch (lines 212-232 and 319-333)
image_features_of(imgs) ==
    IF Len(imgs) = 1
    THEN L2Normalize(get_image_features(imgs[1]))
    ELSE StackMean([k \in 1..Len(imgs) |-> L2Normalize(get_image_features(imgs[k]))])

\* tokenizer and model calls process_text_chunks makes for t
TokenizerUsesOf(t) ==
    LET n == Len(EncodeTextCached(t)) IN
    1 + (IF n <= CHUNK_SIZE THEN 0
         ELSE Len(chunk_text_tokens_sliding_window(t, CHUNK_SIZE, SLIDING_WINDOW_STEP)))

ModelUsesOf(t) == Len(chunk_text_tokens_sliding_window(t, CHUNK_SIZE, SLIDING_WINDOW_STEP))

----------------------------------------------------------------------------
(* Responses *)

ErrorResponse(status, error) == [status |-> status, error |-> error]

\* text_metadata with was_chunked = len(tokens) >= CHUNK_SIZE
text_metadata_AtLeast(t) ==
    LET tokens == EncodeTextCached(t)
        was_chunked == Len(tokens) >= CHUNK_SIZE
        num_chunks == IF was_chunked
                      THEN calculate_sliding_window_chunks(Len(tokens), CHUNK_SIZE, SLIDING_WINDOW_STEP)
                      ELSE 1
    IN  [chunked |-> was_chunked,
         num_chunks |-> num_chunks,
         original_token_count |-> Len(tokens),
         chunk_method |-> IF was_chunked THEN "sliding_window" ELSE "single"]

\* the metadata block of embed_text (lines 150-159)
text_metadata(t) ==
    LET tokens == EncodeTextCached(t)
        was_chunked == Len(tokens) > CHUNK_SIZE
        num_chunks == IF was_chunked
                      THEN calculate_sliding_window_chunks(Len(tokens), CHUNK_SIZE, SLIDING_WINDOW_STEP)
                      ELSE 1
    IN  [chunked |-> was_chunked,
         num_chunks |-> num_chunks,
         original_token_count |-> Len(tokens),
         chunk_method |-> IF was_chunked THEN "sliding_window" ELSE "single"]

\* the try block of embed_text when nothing raises (lines 147-165)
embed_text_result(t) ==
    [status |-> 200,
     embedding |-> ToList(process_text_chunks(t)),
     metadata |-> text_metadata(t)]

\* the try block of embed_image past the image gathering (lines 212-243)
embed_image_result(imgs) ==
    [status |-> 200,
     embedding |-> ToList(image_features_of(imgs)),
     metadata |-> [num_images |-> Len(imgs),
                   processing_method |-> IF Len(imgs) = 1 THEN "single" ELSE "averaged"]]

\* the image branch of embed_combined (lines 317-347)
combined_image_result(t, imgs) ==
    LET text_features == process_text_chunks(t)
        image_features == image_features_of(imgs)
        tokens == EncodeTextCached(t)
        was_chunked == Len(tokens) > CHUNK_SIZE
        num_chunks == IF was_chunked
                      THEN calculate_sliding_window_chunks(Len(tokens), CHUNK_SIZE, SLIDING_WINDOW_STEP)
                      ELSE 1
    IN  [status |-> 200,
         embedding |-> ToList(CombineFeatures(image_features, text_features)),
         metadata |-> [text_chunked |-> was_chunked,
                       num_text_chunks |-> num_chunks,
                       num_images |-> Len(imgs),
                       combination_method |-> "image_text_average",
                       chunk_method |-> IF was_chunked THEN "sliding_window" ELSE "single"]]

\* combined_text_only_result embedding the text in one piece, unchunked
combined_text_only_result_Unchunked(t) ==
    LET text_features == L2Normalize(get_text_features(t))
        tokens == EncodeTextCached(t)
        was_chunked == Len(tokens) > CHUNK_SIZE
        num_chunks == IF was_chunked
                      THEN calculate_sliding_window_chunks(Len(tokens), CHUNK_SIZE, SLIDING_WINDOW_STEP)
                      ELSE 1
    IN  [status |-> 200,
         embedding |-> ToList(text_features),
         metadata |-> [text_chunked |-> was_chunked,
                       num_text_chunks |-> num_chunks,
                       combination_method |-> "text_only",
                       chunk_method |-> IF was_chunked THEN "sliding_window" ELSE "single"]]

\* the text-only branch of embed_combined (lines 348-360)
combined_text_only_result(t) ==
    LET text_features == process_text_chunks(t)
        tokens == EncodeTextCached(t)
        was_chunked == Len(tokens) > CHUNK_SIZE
        num_chunks == IF was_chunked
                      THEN calculate_sliding_window_chunks(Len(tokens), CHUNK_SIZE, SLIDING_WINDOW_STEP)
                      ELSE 1
    IN  [status |-> 200,
         embedding |-> ToList(text_features),
         metadata |-> [text_chunked |-> was_chunked,
                       num_text_chunks |-> num_chunks,
                       combination_method |-> "text_only",
                       chunk_method |-> IF was_chunked THEN "sliding_window" ELSE "single"]]

----------------------------------------------------------------------------
(* The requests a handler may be given *)

\* request.content_length: -1 stands for None (no Content-Length header)
ContentLengths ==
    {-1, 0, MAX_FILE_SIZE_MB * 1024 * 1024, MAX_FILE_SIZE_MB * 1024 * 1024 + 1}

\* texts of n tokens: bare, padded up to the length limit, padded past it
TextsOf(n) == { Text(0, n, p) : p \in {0, MAX_TEXT_LENGTH - n, MAX_TEXT_LENGTH - n + 1} }

Texts == UNION { TextsOf(n) : n \in 0..MaxTokenCount }

\* the images list [image 1, ..., image k]
ImageList(k) == [j \in 1..k |-> j]

NoText == Text(0, 0, 0)
NoResponse == ErrorResponse(0, "")

----------------------------------------------------------------------------
(* validate_request_size and validate_model_availability: TRUE when the    *)
(* function returns an error response                                      *)

validate_request_size(content_length) ==
    content_length > MAX_FILE_SIZE_MB * 1024 * 1024

\* validate_model_availability that never reports an error
validate_model_availability_Skipped == FALSE

validate_model_availability ==
    model = "None" \/ processor = "None" \/ tokenizer = "None"

----------------------------------------------------------------------------
(* The service: one request at a time through its handler *)

Idle ==
    /\ endpoint = "none" /\ pc = "idle"
    /\ is_json = FALSE /\ has_text = FALSE /\ has_image = FALSE /\ has_image_url = FALSE
    /\ nfiles = 0 /\ images = <<>> /\ text = NoText
    /\ response = NoResponse
    /\ tokenizer_uses = 0 /\ model_uses = 0

PlanIdle ==
    /\ p_text = NoText /\ p_chunk_size = CHUNK_SIZE /\ p_step_size = SLIDING_WINDOW_STEP
    /\ p_called = {} /\ p_num = 0 /\ p_chunks = <<>> /\ p_exit = ""

\* lines 26-37: the three are loaded together or all set to None
Init ==
    /\ \E ok \in BOOLEAN :
         /\ model = (IF ok THEN "loaded" ELSE "None")
         /\ processor = (IF ok THEN "loaded" ELSE "None")
         /\ tokenizer = (IF ok THEN "loaded" ELSE "None")
    /\ MAX_FILES \in 1..MaxFilesCfg
    /\ Idle
    /\ PlanIdle

Globals == <<model, processor, tokenizer, MAX_FILES>>
Flags == <<is_json, has_text, has_image, has_image_url, nfiles>>
Uses == <<tokenizer_uses, model_uses>>

\* the handler returns r
Return(r) == response' = r /\ pc' = "done"

\* Flask routes a POST to one of the three handlers
Receive ==
    /\ pc = "idle"
    /\ \E ep \in {"text", "image", "combined"} : endpoint' = ep
    /\ pc' = "size"
    /\ UNCHANGED <<Globals, Flags, images, text, response, Uses, pvars>>

\* size_error = validate_request_size() (lines 130, 174, 259)
ValidateRequestSize ==
    /\ pc = "size"
    /\ \E content_length \in ContentLengths :
         IF content_length = -1
         THEN Return(ErrorResponse(500, "TypeError outside the try block"))
         ELSE IF validate_request_size(content_length)
         THEN Return(ErrorResponse(400, "Request size exceeds limit"))
         ELSE /\ pc' = CASE endpoint = "text" -> "input"
                        [] endpoint = "image" -> "avail"
                        [] endpoint = "combined" -> "flags"
              /\ UNCHANGED response
    /\ UNCHANGED <<Globals, endpoint, Flags, images, text, Uses, pvars>>

\* embed_text, lines 134-140
EmbedTextInput ==
    /\ pc = "input" /\ endpoint = "text"
    /\ \/ /\ Return(ErrorResponse(400, "Invalid input. 'text' is required."))
          /\ UNCHANGED text
       \/ \E t \in Texts :
            /\ text' = t
            /\ IF CharLen(t) > MAX_TEXT_LENGTH
               THEN Return(ErrorResponse(400, "Text length exceeds limit"))
               ELSE pc' = "avail" /\ UNCHANGED response
    /\ UNCHANGED <<Globals, endpoint, Flags, images, Uses, pvars>>

\* embed_combined, lines 263-274
EmbedCombinedFlags ==
    /\ pc = "flags" /\ endpoint = "combined"
    /\ \E json \in BOOLEAN, nf \in 0..MaxImages, ht \in BOOLEAN, hiu \in BOOLEAN :
         /\ json => nf = 0          \* a JSON body carries no multipart files
         /\ is_json' = json
         /\ nfiles' = nf
         /\ has_image' = (nf > 0)
         /\ has_text' = ht
         /\ has_image_url' = hiu
         /\ IF ~ht
            THEN Return(ErrorResponse(400, "Text is required for combined embedding"))
            ELSE pc' = "avail" /\ UNCHANGED response
    /\ UNCHANGED <<Globals, endpoint, images, text, Uses, pvars>>

\* model_error = validate_model_availability() (lines 142, 178, 276)
ValidateModelAvailability ==
    /\ pc = "avail"
    /\ IF validate_model_availability
       THEN Return(ErrorResponse(503, "Model is not available. Please check the server logs."))
       ELSE pc' = "try" /\ UNCHANGED response
    /\ UNCHANGED <<Globals, endpoint, Flags, images, text, Uses, pvars>>

\* embed_text, the try block (lines 146-168)
EmbedTextTry ==
    /\ pc = "try" /\ endpoint = "text"
    /\ IF tokenizer = "None"
       THEN \* line 74 raises ValueError, caught by except Exception
            /\ Return(ErrorResponse(500, "An error occurred while processing the text."))
            /\ UNCHANGED Uses
       ELSE IF processor = "None" \/ model = "None"
       THEN \* processor(...) raises TypeError after the text was chunked
            /\ Return(ErrorResponse(500, "An error occurred while processing the text."))
            /\ tokenizer_uses' = tokenizer_uses + TokenizerUsesOf(text)
            /\ UNCHANGED model_uses
       ELSE /\ Return(embed_text_result(text))
            /\ tokenizer_uses' = tokenizer_uses + TokenizerUsesOf(text) + 1
            /\ model_uses' = model_uses + ModelUsesOf(text)
    /\ UNCHANGED <<Globals, endpoint, Flags, images, text, pvars>>

\* embed_image, the try block (lines 182-253)
EmbedImageTry ==
    /\ pc = "try" /\ endpoint = "image"
    /\ \E json \in BOOLEAN, field \in {"none", "url", "image_url", "image_urls"},
          nurls \in 0..MaxImages, nf \in 0..MaxImages, form_url \in BOOLEAN,
          outcome \in {"ok", "download_failed", "unidentified"} :
         LET from_json == IF ~json THEN 0
                          ELSE IF field \in {"url", "image_url"} THEN 1
                          ELSE IF field = "image_urls" /\ nurls > 0 THEN Min(nurls, MAX_FILES)
                          ELSE 0
             too_many == from_json = 0 /\ nf > 0 /\ nf > MAX_FILES
             from_files == IF from_json = 0 /\ nf > 0 THEN nf ELSE 0
             from_form == IF from_json = 0 /\ from_files = 0 /\ form_url THEN 1 ELSE 0
             k == from_json + from_files + from_form
         IN
         /\ json => (nf = 0 /\ ~form_url)       \* a JSON body carries no form and no files
         /\ ~json => field = "none"
         /\ (field # "image_urls") => nurls = 0
         /\ (outcome = "download_failed") => (from_json > 0 \/ from_form > 0)
         /\ (outcome = "unidentified") => (from_files > 0 /\ ~too_many)
         /\ is_json' = json
         /\ nfiles' = nf
         /\ IF outcome = "download_failed"
            THEN /\ Return(ErrorResponse(400, "Failed to download image from URL"))
                 /\ UNCHANGED <<images, model_uses>>
            ELSE IF too_many
            THEN /\ Return(ErrorResponse(400, "Too many files uploaded."))
                 /\ UNCHANGED <<images, model_uses>>
            ELSE IF outcome = "unidentified"
            THEN /\ Return(ErrorResponse(400, "Invalid image format."))
                 /\ UNCHANGED <<images, model_uses>>
            ELSE IF k = 0
            THEN /\ Return(ErrorResponse(400, "No image provided."))
                 /\ UNCHANGED <<images, model_uses>>
            ELSE IF processor = "None" \/ model = "None"
            THEN /\ Return(ErrorResponse(500, "An error occurred while processing the image."))
                 /\ images' = ImageList(k)
                 /\ UNCHANGED model_uses
            ELSE /\ Return(embed_image_result(ImageList(k)))
                 /\ images' = ImageList(k)
                 /\ model_uses' = model_uses + k
    /\ UNCHANGED <<Globals, endpoint, has_text, has_image, has_image_url, text,
                   tokenizer_uses, pvars>>

\* embed_combined, the try block (lines 280-376)
EmbedCombinedTry ==
    /\ pc = "try" /\ endpoint = "combined"
    /\ \E t \in Texts, listed \in BOOLEAN, nurls \in 0..MaxImages,
          outcome \in {"ok", "download_failed", "unidentified"} :
         LET k == IF has_image THEN nfiles
                  ELSE IF listed THEN Min(nurls, MAX_FILES)
                  ELSE nurls
         IN
         /\ listed => (is_json /\ nurls >= 1)   \* a non-empty "image_urls" of a JSON body
         /\ ~listed => nurls <= 1               \* one "image_url" / "url" value, or an empty one
         /\ (has_image \/ ~has_image_url) => (nurls = 0 /\ ~listed)
         /\ (outcome = "download_failed") => (~has_image /\ k > 0)
         /\ (outcome = "unidentified") => has_image
         /\ (CharLen(t) > MAX_TEXT_LENGTH) => (outcome = "ok" /\ nurls = 0 /\ ~listed)
         /\ text' = t
         /\ IF CharLen(t) > MAX_TEXT_LENGTH
            THEN /\ Return(ErrorResponse(400, "Text length exceeds limit"))
                 /\ UNCHANGED <<images, Uses>>
            ELSE IF (has_image \/ has_image_url) /\ outcome = "download_failed"
            THEN /\ Return(ErrorResponse(400, "Failed to download image from URL"))
                 /\ UNCHANGED <<images, Uses>>
            ELSE IF (has_image \/ has_image_url) /\ outcome = "unidentified"
            THEN /\ Return(ErrorResponse(400, "Invalid image format."))
                 /\ UNCHANGED <<images, Uses>>
            ELSE IF (has_image \/ has_image_url) /\ k = 0
            THEN /\ Return(ErrorResponse(400, "No valid images provided"))
                 /\ UNCHANGED <<images, Uses>>
            ELSE IF tokenizer = "None"
            THEN \* line 74 raises ValueError, caught by except ValueError
                 /\ Return(ErrorResponse(400, "Tokenizer not available"))
                 /\ images' = ImageList(k)
                 /\ UNCHANGED Uses
            ELSE IF processor = "None" \/ model = "None"
            THEN /\ Return(ErrorResponse(500, "An error occurred while processing the combined input."))
                 /\ images' = ImageList(k)
                 /\ tokenizer_uses' = tokenizer_uses + TokenizerUsesOf(t)
                 /\ UNCHANGED model_uses
            ELSE /\ images' = ImageList(k)
                 /\ tokenizer_uses' = tokenizer_uses + TokenizerUsesOf(t) + 1
                 /\ model_uses' = model_uses + ModelUsesOf(t) + k
                 /\ IF has_image \/ has_image_url
                    THEN Return(combined_image_result(t, ImageList(k)))
                    ELSE Return(combined_text_only_result(t))
    /\ UNCHANGED <<Globals, endpoint, Flags, pvars>>

\* the response is sent; the worker takes the next request
Finish ==
    /\ pc = "done"
    /\ endpoint' = "none" /\ pc' = "idle"
    /\ is_json' = FALSE /\ has_text' = FALSE /\ has_image' = FALSE /\ has_image_url' = FALSE
    /\ nfiles' = 0 /\ images' = <<>> /\ text' = NoText
    /\ response' = NoResponse
    /\ tokenizer_uses' = 0 /\ model_uses' = 0
    /\ UNCHANGED <<Globals, pvars>>

Next ==
    \/ Receive
    \/ ValidateRequestSize
    \/ EmbedTextInput
    \/ EmbedCombinedFlags
    \/ ValidateModelAvailability
    \/ EmbedTextTry
    \/ EmbedImageTry
    \/ EmbedCombinedTry
    \/ Finish

Spec == Init /\ [][Next]_vars

----------------------------------------------------------------------------
(* The planner on its own: both functions applied to one text, with any    *)
(* chunk_size and step_size, and with the defaults                         *)

PlanInit ==
    /\ model = "loaded" /\ processor = "loaded" /\ tokenizer = "loaded"
    /\ MAX_FILES = 1
    /\ Idle
    /\ \/ \E cs \in 1..MaxChunkSize, ss \in 1..MaxChunkSize, n \in 0..MaxPlanTokens,
             p \in 0..1 :
            /\ p_chunk_size = cs /\ p_step_size = ss /\ p_text = Text(0, n, p)
       \/ \E n \in 0..MaxTokenCount, p \in 0..1 :
            /\ p_chunk_size = CHUNK_SIZE /\ p_step_size = SLIDING_WINDOW_STEP
            /\ p_text = Text(0, n, p)
    /\ p_called = {} /\ p_num = 0 /\ p_chunks = <<>> /\ p_exit = ""

\* num = calculate_sliding_window_chunks(len(tokens), chunk_size, step_size)
PlanCalculate ==
    /\ "calculate" \notin p_called
    /\ p_num' = calculate_sliding_window_chunks(Len(EncodeTextCached(p_text)),
                                                p_chunk_size, p_step_size)
    /\ p_called' = p_called \cup {"calculate"}
    /\ UNCHANGED <<svars, p_text, p_chunk_size, p_step_size, p_chunks, p_exit>>

\* chunks = chunk_text_tokens_sliding_window(text, chunk_size, step_size)
PlanChunk ==
    /\ "chunk" \notin p_called
    /\ tokenizer # "None"
    /\ p_chunks' = chunk_text_tokens_sliding_window(p_text, p_chunk_size, p_step_size)
    /\ p_exit' = SlidingRun(p_text, p_chunk_size, p_step_size).exit
    /\ p_called' = p_called \cup {"chunk"}
    /\ UNCHANGED <<svars, p_text, p_chunk_size, p_step_size, p_num>>

PlanNext == PlanCalculate \/ PlanChunk

SpecPlan == PlanInit /\ [][PlanNext]_vars

----------------------------------------------------------------------------
(* Properties *)

\* what the formulas read off a planner run
PlanTokenCount == p_text.end - p_text.start
PlanLast == p_chunks[Len(p_chunks)]
WindowLen(w) == w.end - w.start
Deployed == p_chunk_size = CHUNK_SIZE /\ p_step_size = SLIDING_WINDOW_STEP

\* what the formulas read off a finished request
Answered == pc = "done" /\ response.status = 200
TextTokenCount == text.end - text.start
Unavailable == model = "None" \/ processor = "None" \/ tokenizer = "None"

\* the squared Euclidean norm of an embedding list is 1 to within 1/100
UnitNorm(e) ==
    LET num == e[1][1] * e[1][1] + e[2][1] * e[2][1]
        den == e[1][2] * e[1][2]
    IN  100 * Abs(num - den) <= den

\* C1: every embedding the service returns has Euclidean norm 1: the mean of
\* two or more chunk vectors, of two or more image vectors, and the text-image
\* combination are unit vectors, like the single-chunk passthrough.
C1_EveryEmbeddingIsUnit == Answered => UnitNorm(response.embedding)

\* C2 (as stated): for tokenCount > chunkSize >= 2 and 1 <= stepSize <= chunkSize
\* the last emitted window ends at tokenCount.
C2_LastWindowReachesEnd ==
    ( /\ "chunk" \in p_called
      /\ PlanTokenCount > p_chunk_size
      /\ p_chunk_size >= 2
      /\ p_step_size >= 1 /\ p_step_size <= p_chunk_size )
    => (Len(p_chunks) >= 1 /\ PlanLast.end = PlanTokenCount)

\* C2 (amended): under the same conditions the last emitted window ends at
\* tokenCount whenever stepSize <= chunkSize - chunkSize // 2 + 1; for a larger
\* step it ends at tokenCount unless the loop stopped on the minimum-fragment
\* rule, and then the last window is a full one and the dropped candidate
\* [lastStart + stepSize, tokenCount) is non-empty and shorter than chunkSize // 2.
C2_LastWindowReachesEndUnlessFragmentDropped ==
    ( /\ "chunk" \in p_called
      /\ PlanTokenCount > p_chunk_size
      /\ p_chunk_size >= 2
      /\ p_step_size >= 1 /\ p_step_size <= p_chunk_size )
    => /\ Len(p_chunks) >= 1
       /\ (p_step_size <= p_chunk_size - p_chunk_size \div 2 + 1)
            => PlanLast.end = PlanTokenCount
       /\ (PlanLast.end # PlanTokenCount)
            => /\ p_exit = "short"
               /\ WindowLen(PlanLast) = p_chunk_size
               /\ PlanTokenCount - (PlanLast.start + p_step_size) > 0
               /\ PlanTokenCount - (PlanLast.start + p_step_size) < p_chunk_size \div 2

C2_Witness ==
    /\ "chunk" \in p_called
    /\ PlanTokenCount > p_chunk_size
    /\ p_chunk_size >= 2
    /\ p_step_size >= 1 /\ p_step_size <= p_chunk_size - p_chunk_size \div 2 + 1
    /\ Len(p_chunks) >= 3
    /\ WindowLen(PlanLast) < p_chunk_size
    /\ PlanLast.end = PlanTokenCount

\* C3: for tokenCount > chunkSize the k-th emitted window (k = 0, 1, ...) starts
\* at k * stepSize, every emitted window but possibly the last is chunkSize
\* long, and no emitted window is shorter than chunkSize // 2.
C3_WindowsAtStepOffsets ==
    ("chunk" \in p_called /\ PlanTokenCount > p_chunk_size)
    => \A k \in 1..Len(p_chunks) :
         /\ p_chunks[k].start = (k - 1) * p_step_size
         /\ (k < Len(p_chunks)) => WindowLen(p_chunks[k]) = p_chunk_size
         /\ WindowLen(p_chunks[k]) >= p_chunk_size \div 2
         /\ WindowLen(p_chunks[k]) <= p_chunk_size

C3_Witness ==
    /\ "chunk" \in p_called
    /\ PlanTokenCount > p_chunk_size
    /\ Len(p_chunks) >= 3
    /\ p_step_size > 1
    /\ WindowLen(PlanLast) < p_chunk_size
    /\ WindowLen(PlanLast) = p_chunk_size \div 2

\* C4: for 0 <= tokenCount <= chunkSize (tokenCount = 0 included) there is
\* exactly one window, [0, tokenCount): calculate_sliding_window_chunks returns
\* 1 and chunk_text_tokens_sliding_window returns the list holding the original
\* text; and for no tokenCount >= 0 are there zero windows.
C4_ShortTextIsOneWindow ==
    /\ ("calculate" \in p_called) => p_num >= 1
    /\ ("chunk" \in p_called) => Len(p_chunks) >= 1
    /\ ("calculate" \in p_called /\ PlanTokenCount <= p_chunk_size) => p_num = 1
    /\ ("chunk" \in p_called /\ PlanTokenCount <= p_chunk_size)
         => /\ p_chunks = <<p_text>>
            /\ p_chunks[1].start = 0 /\ p_chunks[1].end = PlanTokenCount

C4_Witness ==
    /\ p_called = {"calculate", "chunk"}
    /\ PlanTokenCount = 0
    /\ p_text.pad > 0
    /\ p_num = 1 /\ Len(p_chunks) = 1

\* C5: for every token count, calculate_sliding_window_chunks returns the
\* length of the list chunk_text_tokens_sliding_window returns (same chunkSize
\* and stepSize), so the reported chunk count is the number of chunks embedded.
C5_CountMatchesChunks ==
    (p_called = {"calculate", "chunk"}) => p_num = Len(p_chunks)

C5_Witness ==
    /\ p_called = {"calculate", "chunk"}
    /\ PlanTokenCount > p_chunk_size
    /\ p_exit = "short"
    /\ p_num >= 2 /\ p_num = Len(p_chunks)

\* C6: in the metadata of embed_text and in the text fields of embed_combined,
\* chunked is true exactly when tokenCount > 64, chunk_method is "single"
\* exactly when num_chunks = 1 and "sliding_window" exactly when num_chunks >= 2.
C6_MethodMatchesChunkCount ==
    /\ (Answered /\ endpoint = "text")
         => LET m == response.metadata IN
            /\ m.chunked = (TextTokenCount > 64)
            /\ (m.chunk_method = "single") = (m.num_chunks = 1)
            /\ (m.chunk_method = "sliding_window") = (m.num_chunks >= 2)
            /\ m.num_chunks >= 1
    /\ (Answered /\ endpoint = "combined")
         => LET m == response.metadata IN
            /\ m.text_chunked = (TextTokenCount > 64)
            /\ (m.chunk_method = "single") = (m.num_text_chunks = 1)
            /\ (m.chunk_method = "sliding_window") = (m.num_text_chunks >= 2)
            /\ m.num_text_chunks >= 1

C6_Witness ==
    /\ Answered /\ endpoint = "text"
    /\ TextTokenCount = 65
    /\ response.metadata.chunked
    /\ response.metadata.num_chunks = 2
    /\ response.metadata.chunk_method = "sliding_window"

\* C7: a combined request with no image (no uploaded file, no image URL field)
\* reports combination_method "text_only" and returns the embedding the
\* text-only endpoint returns for the same text; one with at least one image
\* reports "image_text_average".
C7_TextOnlyMatchesEmbedText ==
    (Answered /\ endpoint = "combined")
    => /\ (~has_image /\ ~has_image_url)
            => /\ response.metadata.combination_method = "text_only"
               /\ response.embedding = embed_text_result(text).embedding
       /\ (Len(images) >= 1)
            => response.metadata.combination_method = "image_text_average"
       /\ (has_image \/ has_image_url) => Len(images) >= 1

C7_Witness ==
    /\ Answered /\ endpoint = "combined"
    /\ ~has_image /\ ~has_image_url
    /\ TextTokenCount > 96
    /\ response.metadata.combination_method = "text_only"

\* C8 (as stated): a text of 200 tokens, chunkSize 64, stepSize 32, is planned
\* as 5 windows at offsets 0, 32, 64, 96, 128, each at least 32 tokens long,
\* the last ending at token 200.
C8_TwoHundredTokensFiveWindows ==
    ("chunk" \in p_called /\ Deployed /\ PlanTokenCount = 200)
    => /\ Len(p_chunks) = 5
       /\ \A k \in 1..Len(p_chunks) :
            /\ p_chunks[k].start = 32 * (k - 1)
            /\ WindowLen(p_chunks[k]) >= 32
       /\ PlanLast.end = 200

\* C8 (amended): a text of 200 tokens, chunkSize 64, stepSize 32, is planned as
\* 6 windows at offsets 0, 32, 64, 96, 128, 160, each at least 32 tokens long
\* (the first five 64, the last 40), the last ending at token 200; the reported
\* count is 6.
C8_TwoHundredTokensSixWindows ==
    /\ ("chunk" \in p_called /\ Deployed /\ PlanTokenCount = 200)
         => /\ Len(p_chunks) = 6
            /\ \A k \in 1..Len(p_chunks) :
                 /\ p_chunks[k].start = 32 * (k - 1)
                 /\ WindowLen(p_chunks[k]) >= 32
                 /\ WindowLen(p_chunks[k]) = (IF k < 6 THEN 64 ELSE 40)
            /\ PlanLast.end = 200
    /\ ("calculate" \in p_called /\ Deployed /\ PlanTokenCount = 200) => p_num = 6

C8_Witness ==
    /\ p_called = {"calculate", "chunk"}
    /\ Deployed /\ PlanTokenCount = 200
    /\ p_exit = "end"

\* C9: resource availability is checked before any tokenizer use: while model,
\* processor or tokenizer is None no handler calls _encode_text_cached,
\* tokenizer.decode or the model, and a request that is past its input
\* validation, at the availability check, is answered 503.
C9_UnavailableAnswers503 ==
    [][ /\ Unavailable' => (tokenizer_uses' = 0 /\ model_uses' = 0)
        /\ (Unavailable /\ pc = "avail")
             => (pc' = "done" /\ response'.status = 503) ]_vars

C9_Witness ==
    /\ Unavailable
    /\ pc = "done" /\ endpoint = "combined" /\ has_text
    /\ response.status = 503
    /\ tokenizer_uses = 0 /\ model_uses = 0

\* C10: with chunkSize 64 and stepSize 32 the minimum-fragment rule never drops
\* a window: for tokenCount > 64 the loop leaves only through the
\* 'offset + chunkSize >= tokenCount' stop, every token index of
\* [0, tokenCount) lies in an emitted window, and at least 2 windows are emitted.
C10_DeployedPlanCoversEveryToken ==
    /\ ("chunk" \in p_called /\ Deployed /\ PlanTokenCount > 64)
         => /\ p_exit = "end"
            /\ Len(p_chunks) >= 2
            /\ \A idx \in 0..(PlanTokenCount - 1) :
                 \E k \in 1..Len(p_chunks) :
                   p_chunks[k].start <= idx /\ idx < p_chunks[k].end
    /\ ("calculate" \in p_called /\ Deployed /\ PlanTokenCount > 64) => p_num >= 2

C10_Witness ==
    /\ p_called = {"calculate", "chunk"}
    /\ Deployed /\ PlanTokenCount = 97
    /\ Len(p_chunks) = 3 /\ p_num = 3
    /\ PlanLast.end = 97

====
